---- MODULE Spec2Model ----
(***************************************************************************)
(* Attendance classification and aggregation (src/app.py).                 *)
(*                                                                         *)
(* Part 1 models classify_attendance as a function of one row.  Text cells *)
(* are sequences of one-character strings so that lower-casing, substring  *)
(* search, float() and timestamp parsing are computed, not assumed.        *)
(* Part 2 models the processing steps of main() over a small data frame.   *)
(***************************************************************************)
EXTENDS Integers, Sequences, FiniteSets, TLC

VARIABLES row, result, pc, df, employee_summary, total_present_summary, calendar_df,
          dashboard_metrics, error, classified, built

vars == <<row, result, pc, df, employee_summary, total_present_summary, calendar_df,
          dashboard_metrics, error, classified, built>>

----------------------------------------------------------------------------
(* Column names used by the program.                                       *)

UserCode == "User Code"
UserName == "User Name"
AttendanceDate == "Attendance Date"
StartDayTime == "Start Day Time"
StartDiffInMeters == "Start DiffIn Meters"
AttendanceReasonStart == "Attendance Reason Start"
AttendanceReasonEnd == "Attendance Reason End"
Attendance == "attendance"

(* row[k] raises KeyError when the row has no column k.                    *)
Has(r, k) == k \in DOMAIN r

----------------------------------------------------------------------------
(* Cell values.  A cell is empty (NaN / NaT), text, a number num/den, or a *)
(* timestamp.  The four kinds have different field names.                  *)

NaN == [t |-> "nan"]
Str(s) == [t |-> "str", s |-> s]
Num(n, d) == [t |-> "num", num |-> n, den |-> d]
Date(y, m, d) == [year |-> y, month |-> m, day |-> d]
Ts(dt, h, mi, s, us, ns) ==
    [t |-> "ts", date |-> dt, hour |-> h, minute |-> mi, second |-> s,
     microsecond |-> us, nanosecond |-> ns]

(* pd.notna(cell) *)
notna(v) == v.t # "nan"

----------------------------------------------------------------------------
(* Text.                                                                   *)

UpperChars == <<"A","B","C","D","E","F","G","H","I","J","K","L","M",
                "N","O","P","Q","R","S","T","U","V","W","X","Y","Z">>
LowerChars == <<"a","b","c","d","e","f","g","h","i","j","k","l","m",
                "n","o","p","q","r","s","t","u","v","w","x","y","z">>
DigitChars == <<"0","1","2","3","4","5","6","7","8","9">>

LowerChar(c) ==
    IF \E i \in 1..Len(UpperChars) : UpperChars[i] = c
    THEN LowerChars[CHOOSE i \in 1..Len(UpperChars) : UpperChars[i] = c]
    ELSE c

(* str.lower() *)
StrLower(s) == [i \in 1..Len(s) |-> LowerChar(s[i])]

(* sub in s *)
Contains(sub, s) ==
    \E i \in 0..(Len(s) - Len(sub)) : SubSeq(s, i + 1, i + Len(sub)) = sub

IsDigit(c) == \E i \in 1..Len(DigitChars) : DigitChars[i] = c
DigitVal(c) == (CHOOSE i \in 1..Len(DigitChars) : DigitChars[i] = c) - 1
AllDigits(s) == Len(s) > 0 /\ \A i \in 1..Len(s) : IsDigit(s[i])

RECURSIVE DigitsToInt(_)
DigitsToInt(s) ==
    IF Len(s) = 0 THEN 0
    ELSE 10 * DigitsToInt(SubSeq(s, 1, Len(s) - 1)) + DigitVal(s[Len(s)])

RECURSIVE Pow10(_)
Pow10(k) == IF k = 0 THEN 1 ELSE 10 * Pow10(k - 1)

IndexOf(c, s) ==
    IF \E i \in 1..Len(s) : s[i] = c
    THEN CHOOSE i \in 1..Len(s) : s[i] = c /\ \A j \in 1..(i - 1) : s[j] # c
    ELSE 0

OTHER_LOCATION == <<"O","t","h","e","r"," ","L","o","c","a","t","i","o","n">>
OUTSTATION == <<"o","u","t","s","t","a","t","i","o","n">>

----------------------------------------------------------------------------
(* Outcomes of a Python expression: a value, or a raised exception.        *)

Ok(v) == [raised |-> FALSE, val |-> v]
Raise(e) == [raised |-> TRUE, exc |-> e]

(* Extended reals as float() produces them: a finite num/den, inf, nan.    *)
Fin(n, d) == [f |-> "fin", num |-> n, den |-> d]
Inf == [f |-> "inf"]
FNaN == [f |-> "nan"]

(* x < limit for a float x and an integer limit; comparisons with nan are  *)
(* False and inf is below no finite number.                                *)
FloatLess(x, limit) == x.f = "fin" /\ x.num < limit * x.den

(* float(text) on the texts of the model's inputs: an optional sign,       *)
(* digits and an optional fraction give a number, other text raises        *)
(* ValueError.                                                             *)
UnsignedFloat(s) ==
    LET dot == IndexOf(".", s) IN
    IF dot = 0
    THEN IF AllDigits(s) THEN Ok(Fin(DigitsToInt(s), 1)) ELSE Raise("ValueError")
    ELSE LET ip == SubSeq(s, 1, dot - 1)
             fp == SubSeq(s, dot + 1, Len(s))
         IN IF AllDigits(ip) /\ AllDigits(fp)
            THEN Ok(Fin(DigitsToInt(ip \o fp), Pow10(Len(fp))))
            ELSE Raise("ValueError")

StrToFloat(s) ==
    IF Len(s) > 0 /\ s[1] = "-"
    THEN LET u == UnsignedFloat(Tail(s)) IN
         IF u.raised THEN u ELSE Ok(Fin(0 - u.val.num, u.val.den))
    ELSE UnsignedFloat(s)

(* float(cell) *)
ToFloat(v) ==
    CASE v.t = "num" -> Ok(Fin(v.num, v.den))
      [] v.t = "nan" -> Ok(FNaN)
      [] v.t = "str" -> StrToFloat(v.s)
      [] OTHER -> Raise("TypeError")

----------------------------------------------------------------------------
(* Timestamps.                                                             *)

NaT == [t |-> "nat"]

IsLeap(y) == (y % 4 = 0 /\ y % 100 # 0) \/ y % 400 = 0
DaysInMonth(y, m) ==
    IF m = 2 THEN (IF IsLeap(y) THEN 29 ELSE 28)
    ELSE IF m \in {4, 6, 9, 11} THEN 30 ELSE 31

(* The fractional seconds of a timestamp text, right-padded to nine digits *)
Frac9(fp) == DigitsToInt(fp) * Pow10(9 - Len(fp))

(* pd.to_datetime(text) for texts of the form YYYY-MM-DD HH:MM:SS[.f{1,9}]; *)
(* any other text of the model's inputs is rejected by the parser.          *)
ParseTimestamp(s) ==
    IF /\ Len(s) >= 19
       /\ AllDigits(SubSeq(s, 1, 4)) /\ s[5] = "-" /\ AllDigits(SubSeq(s, 6, 7))
       /\ s[8] = "-" /\ AllDigits(SubSeq(s, 9, 10)) /\ s[11] = " "
       /\ AllDigits(SubSeq(s, 12, 13)) /\ s[14] = ":" /\ AllDigits(SubSeq(s, 15, 16))
       /\ s[17] = ":" /\ AllDigits(SubSeq(s, 18, 19))
       /\ (Len(s) = 19 \/ (Len(s) \in 21..29 /\ s[20] = "."
                           /\ AllDigits(SubSeq(s, 21, Len(s)))))
    THEN LET y == DigitsToInt(SubSeq(s, 1, 4))
             m == DigitsToInt(SubSeq(s, 6, 7))
             d == DigitsToInt(SubSeq(s, 9, 10))
             h == DigitsToInt(SubSeq(s, 12, 13))
             mi == DigitsToInt(SubSeq(s, 15, 16))
             sec == DigitsToInt(SubSeq(s, 18, 19))
             f == IF Len(s) = 19 THEN 0 ELSE Frac9(SubSeq(s, 21, Len(s)))
         IN IF /\ m \in 1..12 /\ y >= 1 /\ d >= 1 /\ d <= DaysInMonth(y, m)
               /\ h <= 23 /\ mi <= 59 /\ sec <= 59
            THEN Ok(Ts(Date(y, m, d), h, mi, sec, f \div 1000, f % 1000))
            ELSE Raise("ValueError")
    ELSE Raise("ValueError")

(* pd.to_datetime(cell): a timestamp is kept, an empty cell becomes NaT,   *)
(* text is parsed.                                                         *)
to_datetime(v) ==
    CASE v.t = "ts" -> Ok(v)
      [] v.t = "nan" -> Ok(NaT)
      [] v.t = "str" -> ParseTimestamp(v.s)
      [] OTHER -> Raise("TypeError")

(* Timestamp order: lexicographic on date and time fields.                 *)
TsKey(x) == <<x.date.year, x.date.month, x.date.day, x.hour, x.minute,
              x.second, x.microsecond, x.nanosecond>>

RECURSIVE LexLeq(_, _)
LexLeq(a, b) ==
    IF Len(a) = 0 THEN TRUE
    ELSE IF Head(a) < Head(b) THEN TRUE
    ELSE IF Head(a) > Head(b) THEN FALSE
    ELSE LexLeq(Tail(a), Tail(b))

(* a <= b on Timestamp / NaT: every comparison with NaT is False.          *)
TsLeq(a, b) == a.t = "ts" /\ b.t = "ts" /\ LexLeq(TsKey(a), TsKey(b))

----------------------------------------------------------------------------
(* classify_attendance                                                     *)

CUTOFF_HOUR == 9
CUTOFF_MINUTE == 15
METER_LIMIT == 200

Statuses == {"present", "outstation_present", "late", "outstation_late"}
AllStatuses == Statuses \cup {"absent"}

(* start_time.replace(hour=9, minute=15, second=0, microsecond=0): the     *)
(* date and the nanosecond field are kept; NaT.replace(...) is NaT.        *)
replace_cutoff(start_time) ==
    IF start_time.t = "nat" THEN NaT
    ELSE [start_time EXCEPT !.hour = CUTOFF_HOUR, !.minute = CUTOFF_MINUTE,
                            !.second = 0, !.microsecond = 0]

(* Lines 35-42: "Other Location" and anything float() rejects are inf.     *)
OtherLocationAsZero(start_meter) ==
    IF start_meter.t = "str" /\ start_meter.s = OTHER_LOCATION THEN Fin(0, 1)
    ELSE LET f == ToFloat(start_meter) IN IF f.raised THEN Inf ELSE f.val

start_meter_value_of(start_meter) ==
    IF start_meter.t = "str" /\ start_meter.s = OTHER_LOCATION THEN Inf
    ELSE LET f == ToFloat(start_meter) IN IF f.raised THEN Inf ELSE f.val

(* str(cell).lower() if pd.notna(cell) else ""  (reason cells are text or  *)
(* empty in the model's inputs)                                            *)
reason_lower(cell) == IF notna(cell) THEN StrLower(cell.s) ELSE <<>>

(* Lines 45-47 *)
is_outstation_of(reason_start_cell, reason_end_cell) ==
    \/ Contains(OUTSTATION, reason_lower(reason_start_cell))
    \/ Contains(OUTSTATION, reason_lower(reason_end_cell))

(* Lines 50-59 *)
RulesStrictCutoff(start_time, cutoff_time, start_meter_value, is_outstation) ==
    IF /\ TsLeq(start_time, cutoff_time) /\ start_time # cutoff_time
       /\ FloatLess(start_meter_value, METER_LIMIT)
    THEN (IF is_outstation THEN "outstation_present" ELSE "present")
    ELSE (IF is_outstation THEN "outstation_late" ELSE "late")

RulesOutstationFirst(start_time, cutoff_time, start_meter_value, is_outstation) ==
    IF is_outstation THEN "outstation_present"
    ELSE IF /\ TsLeq(start_time, cutoff_time)
            /\ FloatLess(start_meter_value, METER_LIMIT)
         THEN "present" ELSE "late"

apply_rules(start_time, cutoff_time, start_meter_value, is_outstation) ==
    IF /\ TsLeq(start_time, cutoff_time)
       /\ FloatLess(start_meter_value, METER_LIMIT)
    THEN (IF is_outstation THEN "outstation_present" ELSE "present")
    ELSE (IF is_outstation THEN "outstation_late" ELSE "late")

(* Lines 31-59, the body of the try block: the first failing step raises.  *)
classify_try(r) ==
    IF ~Has(r, StartDayTime) THEN Raise("KeyError")
    ELSE LET parsed == to_datetime(r[StartDayTime]) IN
    IF parsed.raised THEN parsed
    ELSE LET start_time == parsed.val
             cutoff_time == replace_cutoff(start_time)
         IN
    IF ~Has(r, StartDiffInMeters) THEN Raise("KeyError")
    ELSE LET start_meter_value == start_meter_value_of(r[StartDiffInMeters]) IN
    IF ~Has(r, AttendanceReasonStart) THEN Raise("KeyError")
    ELSE IF ~Has(r, AttendanceReasonEnd) THEN Raise("KeyError")
    ELSE Ok(apply_rules(start_time, cutoff_time, start_meter_value,
                        is_outstation_of(r[AttendanceReasonStart],
                                         r[AttendanceReasonEnd])))

(* Lines 29-62: except Exception -> "late".                                *)
ClassifyNoHandler(r) ==
    LET o == classify_try(r) IN IF o.raised THEN o.exc ELSE o.val

classify_attendance(r) ==
    LET o == classify_try(r) IN IF o.raised THEN "late" ELSE o.val

----------------------------------------------------------------------------
(* Input cells for the classifier.                                         *)

D0101 == Date(2024, 1, 1)

TXT_DAY == <<"2","0","2","4","-","0","1","-","0","1"," ">>
TXT_0915 == <<"0","9",":","1","5",":","0","0">>
TXT_ABC == <<"a","b","c">>

(* Start Day Time: timestamps as a date cell gives them (nanosecond 0),    *)
(* timestamp texts, texts the parser rejects, and the empty cell.          *)
SdtCells ==
    { Ts(D0101, 8, 0, 0, 0, 0), Ts(D0101, 9, 15, 0, 0, 0),
      Ts(D0101, 9, 15, 0, 1, 0), Ts(D0101, 9, 30, 0, 0, 0),
      Ts(D0101, 23, 59, 59, 999999, 0),
      Str(TXT_DAY \o TXT_0915),
      Str(TXT_DAY \o TXT_0915 \o <<".","0","0","0","0","0","0","0","0","1">>),
      Str(TXT_DAY \o <<"0","9",":","1","4",":","5","9",".","9","9","9","9","9","9","9","9","9">>),
      Str(TXT_DAY \o <<"0","9",":","1","5",":","0","0",".","0","0","0","0","0","1">>),
      Str(TXT_DAY \o <<"0","8",":","0","0",":","0","0",".","5">>),
      Str(TXT_DAY \o <<"2","5",":","0","0",":","0","0">>),
      Str(<<"2","0","2","4","-","0","2","-","3","0"," ","0","9",":","0","0",":","0","0">>),
      Str(TXT_ABC),
      NaN }

(* Start DiffIn Meters: numbers, number texts, the sentinel, other texts,  *)
(* and the empty cell.                                                     *)
MeterCells ==
    { Num(0, 1), Num(50, 1), Num(1999, 10), Num(200, 1), Num(2001, 10),
      Num(500, 1), Num(0 - 5, 1),
      Str(OTHER_LOCATION), Str(StrLower(OTHER_LOCATION)),
      Str(<<"1","5","0">>), Str(<<"1","9","9",".","5">>), Str(<<"2","0","0">>), Str(<<"-","3">>),
      Str(TXT_ABC), NaN }

(* Reason cells: text or empty.                                            *)
ReasonCells ==
    { NaN, Str(<<>>), Str(<<"S","i","c","k">>), Str(<<"O","u","t","s","t","a","t","i","o","n">>), Str(<<"O","U","T","S","T","A","T","I","O","N">>),
      Str(<<"a","t"," ","o","u","t","s","t","a","t","i","o","n"," ","s","i","t","e">>), Str(<<"o","u","t","s","t","a","t","i","o">>) }

(* The value a field takes when the row has no such column.                *)
NoColumn == [t |-> "nocolumn"]

ClassifierFields ==
    {StartDayTime, StartDiffInMeters, AttendanceReasonStart, AttendanceReasonEnd}

MakeRow(sdt, meter, rs, re) ==
    LET full == (StartDayTime :> sdt) @@ (StartDiffInMeters :> meter)
                @@ (AttendanceReasonStart :> rs) @@ (AttendanceReasonEnd :> re)
        keep == {k \in ClassifierFields : full[k] # NoColumn}
    IN [k \in keep |-> full[k]]

ClassifierRows ==
    { MakeRow(sdt, meter, rs, re) :
        sdt \in SdtCells \cup {NoColumn}, meter \in MeterCells \cup {NoColumn},
        rs \in ReasonCells \cup {NoColumn}, re \in ReasonCells \cup {NoColumn} }

----------------------------------------------------------------------------
(* Text order, number and date formatting used by the aggregations.        *)

AsciiOrder == <<" ", "-", ".">> \o DigitChars \o <<":">> \o UpperChars \o LowerChars
CharOrd(c) == CHOOSE i \in 1..Len(AsciiOrder) : AsciiOrder[i] = c

(* a < b on Python str *)
RECURSIVE StrLess(_, _)
StrLess(a, b) ==
    IF Len(b) = 0 THEN FALSE
    ELSE IF Len(a) = 0 THEN TRUE
    ELSE IF CharOrd(Head(a)) < CharOrd(Head(b)) THEN TRUE
    ELSE IF CharOrd(Head(a)) > CharOrd(Head(b)) THEN FALSE
    ELSE StrLess(Tail(a), Tail(b))

Pad2(n) == <<DigitChars[((n \div 10) % 10) + 1], DigitChars[(n % 10) + 1]>>
Pad4(n) == Pad2(n \div 100) \o Pad2(n % 100)

DayNames == <<<<"M","o","n">>, <<"T","u","e">>, <<"W","e","d">>, <<"T","h","u">>, <<"F","r","i">>, <<"S","a","t">>, <<"S","u","n">>>>

RECURSIVE DaysBeforeMonth(_, _)
DaysBeforeMonth(y, m) ==
    IF m = 1 THEN 0 ELSE DaysBeforeMonth(y, m - 1) + DaysInMonth(y, m - 1)

(* date.toordinal() and date.weekday() (Monday is 0)                        *)
ToOrdinal(d) ==
    LET y == d.year - 1 IN
    (y * 365) + (y \div 4) - (y \div 100) + (y \div 400)
    + DaysBeforeMonth(d.year, d.month) + d.day
Weekday(d) == (ToOrdinal(d) + 6) % 7

(* strftime('%Y-%m-%d'), strftime('%a'), strftime('%d %a')                   *)
FormatDateStr(d) == Pad4(d.year) \o <<"-">> \o Pad2(d.month) \o <<"-">> \o Pad2(d.day)
FormatDayName(d) == DayNames[Weekday(d) + 1]
FormatDateDisplay(d) == Pad2(d.day) \o <<" ">> \o FormatDayName(d)

(* sorted(S) for a finite set of texts                                      *)
RECURSIVE SortedStrs(_)
SortedStrs(S) ==
    IF S = {} THEN <<>>
    ELSE LET m == CHOOSE x \in S : \A y \in S \ {x} : StrLess(x, y)
         IN <<m>> \o SortedStrs(S \ {m})

(* Group keys <<code, name>> in the order groupby / pivot_table sort them. *)
KeyLess(a, b) == StrLess(a[1], b[1]) \/ (a[1] = b[1] /\ StrLess(a[2], b[2]))

RECURSIVE SortedKeys(_)
SortedKeys(S) ==
    IF S = {} THEN <<>>
    ELSE LET m == CHOOSE x \in S : \A y \in S \ {x} : KeyLess(x, y)
         IN <<m>> \o SortedKeys(S \ {m})

RECURSIVE SumSeq(_)
SumSeq(q) == IF Len(q) = 0 THEN 0 ELSE Head(q) + SumSeq(Tail(q))

----------------------------------------------------------------------------
(* The data frame: a sequence of rows, each a function from column names   *)
(* to cells.  The employee of a row is its <<User Code, User Name>> pair.  *)

RowKey(r) == <<r[UserCode].s, r[UserName].s>>
GroupKeys(d) == {RowKey(d[i]) : i \in 1..Len(d)}
RowsOf(d, k) == {i \in 1..Len(d) : RowKey(d[i]) = k}

(* Line 656: df['attendance'] = df.apply(classify_attendance, axis=1)      *)
apply_classify(d) ==
    [i \in 1..Len(d) |-> d[i] @@ (Attendance :> classify_attendance(d[i]))]

----------------------------------------------------------------------------
(* create_employee_summary                                                 *)

attendance_types == <<"present", "outstation_present", "late", "outstation_late", "absent">>

(* groupby(...)['attendance'].value_counts().unstack(fill_value=0), with   *)
(* the columns missing from it added as 0 (lines 125-131).                 *)
value_count(d, k, att_type) ==
    Cardinality({i \in RowsOf(d, k) : d[i][Attendance] = att_type})

(* round(x, 1) of x = 100 * a / b, in tenths, halves to even; NaN for b = 0 *)
RoundedPercent(a, b) ==
    IF b = 0 THEN NaN
    ELSE LET q == (a * 1000) \div b
             r == (a * 1000) % b
         IN Num(IF 2 * r < b THEN q
                ELSE IF 2 * r > b THEN q + 1
                ELSE IF q % 2 = 0 THEN q ELSE q + 1, 10)

(* Line 140: summary['present'] + summary['outstation_present']             *)
total_present_only(counts) == counts[1]

total_present_of(counts) == counts[1] + counts[2]

summary_row(d, k) ==
    LET counts == [j \in 1..Len(attendance_types) |-> value_count(d, k, attendance_types[j])]
        total_days == SumSeq(counts)
        total_present == total_present_of(counts)
    IN [code |-> k[1], name |-> k[2],
        Present |-> counts[1], OutstationPresent |-> counts[2],
        TotalPresent |-> total_present,
        Late |-> counts[3], OutstationLate |-> counts[4], Absent |-> counts[5],
        TotalDays |-> total_days,
        AttendancePct |-> RoundedPercent(total_present, total_days)]

create_employee_summary(d) ==
    LET keys == SortedKeys(GroupKeys(d))
    IN [i \in 1..Len(keys) |-> summary_row(d, keys[i])]

----------------------------------------------------------------------------
(* create_total_present_summary                                            *)

(* Lines 158-173: one row per employee, in group-key order.                *)
total_present_rows(d) ==
    LET keys == SortedKeys(GroupKeys(d))
    IN [i \in 1..Len(keys) |->
          [code |-> keys[i][1], name |-> keys[i][2],
           TotalPresent |-> value_count(d, keys[i], "present")
                            + value_count(d, keys[i], "outstation_present")]]

(* Line 176: sort_values('Total Present', ascending=False) with the        *)
(* default sort kind, which does not fix the order of equal keys: every    *)
(* descending arrangement of the rows is a possible result.                *)
SortedDescending(rows) ==
    { [i \in 1..Len(rows) |-> rows[p[i]]] : p \in
        { q \in Permutations(1..Len(rows)) :
            \A i, j \in 1..Len(rows) :
                i < j => rows[q[i]].TotalPresent >= rows[q[j]].TotalPresent } }

create_total_present_summary(d) == SortedDescending(total_present_rows(d))

----------------------------------------------------------------------------
(* create_monthly_calendar_view                                            *)

COL_USER_CODE == <<"U","s","e","r"," ","C","o","d","e">>
COL_USER_NAME == <<"U","s","e","r"," ","N","a","m","e">>

(* pd.to_datetime(df['Attendance Date']).dt.date                            *)
DateOf(r) == to_datetime(r[AttendanceDate]).val.date

(* Lines 69-75: the columns the function adds to the frame it is given.    *)
with_date_columns_first_per_day(d) ==
    LET keep == {i \in 1..Len(d) :
                    \A j \in 1..(i - 1) :
                        RowKey(d[j]) # RowKey(d[i]) \/ DateOf(d[j]) # DateOf(d[i])}
        nth(n) == CHOOSE i \in keep : Cardinality({j \in keep : j < i}) = n - 1
    IN [n \in 1..Cardinality(keep) |->
          LET dt == DateOf(d[nth(n)]) IN
          ("date" :> dt) @@ ("date_str" :> FormatDateStr(dt))
          @@ ("day_name" :> FormatDayName(dt)) @@ ("day_number" :> dt.day)
          @@ ("date_display" :> FormatDateDisplay(dt)) @@ d[nth(n)]]

with_date_columns(d) ==
    [i \in 1..Len(d) |->
        LET dt == DateOf(d[i]) IN
        ("date" :> dt) @@ ("date_str" :> FormatDateStr(dt))
        @@ ("day_name" :> FormatDayName(dt)) @@ ("day_number" :> dt.day)
        @@ ("date_display" :> FormatDateDisplay(dt)) @@ d[i]]

(* Line 83: dict(zip(df['date_str'], df['date_display'])): the last row    *)
(* with a key sets its value.                                              *)
date_display_map(d) ==
    [ds \in {d[i]["date_str"] : i \in 1..Len(d)} |->
        LET last == CHOOSE i \in 1..Len(d) :
                        /\ d[i]["date_str"] = ds
                        /\ \A j \in (i + 1)..Len(d) : d[j]["date_str"] # ds
        IN d[last]["date_display"]]

(* Line 87: index=['User Code', 'User Name'], one grid row per pair, in    *)
(* sorted order.                                                           *)
calendar_index_by_code(d) ==
    LET codes == {k[1] : k \in GroupKeys(d)}
    IN SortedKeys({CHOOSE k \in GroupKeys(d) : k[1] = c : c \in codes})

calendar_index(d) == SortedKeys(GroupKeys(d))

(* Lines 86-92: aggfunc='first' over the rows of (employee, date_str) in   *)
(* frame order, fill_value='absent' where there is none.                   *)
pivot_cell_last(d, k, ds) ==
    LET hits == {i \in RowsOf(d, k) : d[i]["date_str"] = ds} IN
    IF hits = {} THEN "absent"
    ELSE d[CHOOSE i \in hits : \A j \in hits : j <= i][Attendance]

pivot_cell_fill_present(d, k, ds) ==
    LET hits == {i \in RowsOf(d, k) : d[i]["date_str"] = ds} IN
    IF hits = {} THEN "present"
    ELSE d[CHOOSE i \in hits : \A j \in hits : i <= j][Attendance]

pivot_cell(d, k, ds) ==
    LET hits == {i \in RowsOf(d, k) : d[i]["date_str"] = ds} IN
    IF hits = {} THEN "absent"
    ELSE d[CHOOSE i \in hits : \A j \in hits : i <= j][Attendance]

(* Lines 109-114: a column without an entry in the map is parsed as a      *)
(* date and formatted; a text that does not parse keeps its name.          *)
fallback_display(col) ==
    IF /\ Len(col) = 10 /\ AllDigits(SubSeq(col, 1, 4)) /\ col[5] = "-"
       /\ AllDigits(SubSeq(col, 6, 7)) /\ col[8] = "-" /\ AllDigits(SubSeq(col, 9, 10))
       /\ DigitsToInt(SubSeq(col, 6, 7)) \in 1..12
       /\ DigitsToInt(SubSeq(col, 1, 4)) >= 1
       /\ DigitsToInt(SubSeq(col, 9, 10)) \in
              1..DaysInMonth(DigitsToInt(SubSeq(col, 1, 4)), DigitsToInt(SubSeq(col, 6, 7)))
    THEN FormatDateDisplay(Date(DigitsToInt(SubSeq(col, 1, 4)),
                                DigitsToInt(SubSeq(col, 6, 7)),
                                DigitsToInt(SubSeq(col, 9, 10))))
    ELSE col

(* Lines 95-116: missing date columns are added as 'absent', the date      *)
(* columns are sorted and renamed to their display text.                   *)
calendar_of(d) ==
    LET keys == calendar_index(d)
        pivot_columns == {d[i]["date_str"] : i \in 1..Len(d)}
        all_dates == SortedStrs({d[i]["date_str"] : i \in 1..Len(d)})
        added == {all_dates[j] : j \in 1..Len(all_dates)} \ pivot_columns
        date_columns == SortedStrs(pivot_columns \cup added)
        names == date_display_map(d)
        column_mapping(col) ==
            IF col \in DOMAIN names THEN names[col] ELSE fallback_display(col)
    IN [columns |-> <<COL_USER_CODE, COL_USER_NAME>>
                    \o [j \in 1..Len(date_columns) |-> column_mapping(date_columns[j])],
        rows |-> [i \in 1..Len(keys) |->
                    [key |-> keys[i],
                     cells |-> [j \in 1..Len(date_columns) |->
                                  IF date_columns[j] \in pivot_columns
                                  THEN pivot_cell(d, keys[i], date_columns[j])
                                  ELSE "absent"]]]]

create_monthly_calendar_view(d) == calendar_of(with_date_columns(d))

----------------------------------------------------------------------------
(* create_dashboard_metrics                                                *)

(* Lines 196-200: pd.cut(..., bins=[0, 50, 75, 90, 100], labels=[...]).    *)
(* Bins are open on the left and closed on the right; a value in no bin,   *)
(* and an undefined value, get no category.                                *)
cut_bins == <<0, 50, 75, 90, 100>>
cut_labels == <<"Poor (<50%)", "Average (50-75%)", "Good (75-90%)", "Excellent (>90%)">>
NO_CATEGORY == "NaN"

InBinLeftClosed(x, i) == cut_bins[i] * x.den <= x.num /\ x.num < cut_bins[i + 1] * x.den

in_bin(x, i) == cut_bins[i] * x.den < x.num /\ x.num <= cut_bins[i + 1] * x.den

performance_category(pct) ==
    IF pct.t # "num" \/ ~\E i \in 1..Len(cut_labels) : in_bin(pct, i)
    THEN NO_CATEGORY
    ELSE cut_labels[CHOOSE i \in 1..Len(cut_labels) : in_bin(pct, i)]

(* Lines 196-200: the column the function adds to the summary it is given. *)
with_performance_category(es) ==
    [i \in 1..Len(es) |->
        [code |-> es[i].code, name |-> es[i].name,
         Present |-> es[i].Present, OutstationPresent |-> es[i].OutstationPresent,
         TotalPresent |-> es[i].TotalPresent,
         Late |-> es[i].Late, OutstationLate |-> es[i].OutstationLate,
         Absent |-> es[i].Absent, TotalDays |-> es[i].TotalDays,
         AttendancePct |-> es[i].AttendancePct,
         performance_category |-> performance_category(es[i].AttendancePct)]]

(* Line 192: df['date'] = pd.to_datetime(df['Attendance Date']).dt.date    *)
with_date(d) == [i \in 1..Len(d) |-> ("date" :> DateOf(d[i])) @@ d[i]]

(* Line 193: groupby('date')['attendance'].value_counts().unstack(0): for  *)
(* every date, the count of every status that occurs in the frame.         *)
daily_attendance_of(d) ==
    [dt \in {d[i]["date"] : i \in 1..Len(d)} |->
        [st \in {d[i][Attendance] : i \in 1..Len(d)} |->
            Cardinality({i \in 1..Len(d) : d[i]["date"] = dt /\ d[i][Attendance] = st})]]

RECURSIVE MaxSeq(_)
MaxSeq(q) ==
    IF Len(q) = 1 THEN q[1]
    ELSE LET m == MaxSeq(Tail(q)) IN IF q[1] >= m THEN q[1] ELSE m

RECURSIVE MinSeq(_)
MinSeq(q) ==
    IF Len(q) = 1 THEN q[1]
    ELSE LET m == MinSeq(Tail(q)) IN IF q[1] <= m THEN q[1] ELSE m

(* Line 187 *)
LateDaysWithoutOutstation(es) ==
    SumSeq([i \in 1..Len(es) |-> es[i].Late])

total_late_days_of(es) ==
    SumSeq([i \in 1..Len(es) |-> es[i].Late])
    + SumSeq([i \in 1..Len(es) |-> es[i].OutstationLate])

(* Line 189: the days every employee is taken to have.                     *)
DaysPerEmployeeMin(es) == MinSeq([i \in 1..Len(es) |-> es[i].TotalDays])

days_per_employee(es) == MaxSeq([i \in 1..Len(es) |-> es[i].TotalDays])

(* Lines 185-189, 202-210; the rate is in tenths of a percent.             *)
create_dashboard_metrics(d, es) ==
    LET total_employees == Len(es)
        total_present_days == SumSeq([i \in 1..Len(es) |-> es[i].TotalPresent])
        total_late_days == total_late_days_of(es)
        total_absent_days == SumSeq([i \in 1..Len(es) |-> es[i].Absent])
        categories == with_performance_category(es)
    IN [total_employees |-> total_employees,
        total_present_days |-> total_present_days,
        total_late_days |-> total_late_days,
        total_absent_days |-> total_absent_days,
        overall_attendance_rate |->
            IF total_employees = 0 THEN NaN
            ELSE RoundedPercent(total_present_days,
                                total_employees * days_per_employee(es)),
        daily_attendance |-> daily_attendance_of(with_date(d)),
        performance_categories |->
            [c \in {cut_labels[j] : j \in 1..Len(cut_labels)} |->
                Cardinality({i \in 1..Len(es) :
                                categories[i].performance_category = c})]]

----------------------------------------------------------------------------
(* The rows a loaded data frame may hold.                                  *)

MaxRows == 2

Employees == { <<<<"E","1">>, <<"A","n","n">>>>, <<<<"E","1">>, <<"B","o","b">>>>, <<<<"E","2">>, <<"A","n","n">>>> }

(* 2024-01-01 and 2024-04-01 are both Mondays; 2024-01-02 is a Tuesday.    *)
AttendanceDates ==
    { Ts(Date(2024, 1, 1), 0, 0, 0, 0, 0), Ts(Date(2024, 1, 2), 0, 0, 0, 0, 0),
      Ts(Date(2024, 4, 1), 0, 0, 0, 0, 0) }

(* <<Start Day Time, Start DiffIn Meters, Attendance Reason Start>>        *)
FrameInputs ==
    { <<Ts(D0101, 9, 0, 0, 0, 0), Num(50, 1), NaN>>,
      <<Ts(D0101, 9, 0, 0, 0, 0), Num(50, 1), Str(<<"O","u","t","s","t","a","t","i","o","n">>)>>,
      <<Ts(D0101, 9, 30, 0, 0, 0), Num(50, 1), NaN>>,
      <<Ts(D0101, 9, 0, 0, 0, 0), Str(OTHER_LOCATION), Str(<<"O","u","t","s","t","a","t","i","o","n">>)>> }

FrameRows ==
    { (UserCode :> Str(e[1])) @@ (UserName :> Str(e[2])) @@ (AttendanceDate :> ad)
      @@ (StartDayTime :> x[1]) @@ (StartDiffInMeters :> x[2])
      @@ (AttendanceReasonStart :> x[3]) @@ (AttendanceReasonEnd :> NaN) :
        e \in Employees, ad \in AttendanceDates, x \in FrameInputs }

None == [t |-> "none"]

----------------------------------------------------------------------------
(* The steps of main() and the exceptions they raise.  A column a step     *)
(* reads and the frame lacks raises KeyError, which main() reports with    *)
(* st.error (lines 880-882).                                               *)

Columns(d) == DOMAIN d[1]
KeyError(k) == [type |-> "KeyError", key |-> k]

(* The KeyError a call raises on frame d, None when it raises nothing.     *)
(* Lines 125 and 158: groupby(['User Code', 'User Name']).                 *)
groupby_error(d) ==
    IF UserCode \notin Columns(d) THEN KeyError(UserCode)
    ELSE IF UserName \notin Columns(d) THEN KeyError(UserName)
    ELSE None

(* df['Attendance Date'] at line 69, the user columns at line 78.          *)
calendar_error(d) ==
    IF AttendanceDate \notin Columns(d) THEN KeyError(AttendanceDate)
    ELSE groupby_error(d)

(* df['Attendance Date'] at line 192.                                      *)
dashboard_error(d) ==
    IF AttendanceDate \notin Columns(d) THEN KeyError(AttendanceDate) ELSE None

----------------------------------------------------------------------------
(* main(), lines 636-661: the frame is loaded, classified, and the views   *)
(* are built from it in program order.  classified records the frame as    *)
(* classification left it, built the outputs bound so far.                 *)

Unloaded ==
    /\ row = <<>>
    /\ result = "unused"
    /\ pc = "load"
    /\ employee_summary = None
    /\ total_present_summary = None
    /\ calendar_df = None
    /\ dashboard_metrics = None
    /\ error = None
    /\ classified = None
    /\ built = {}

Init == Unloaded /\ df = <<>>

(* Lines 636-651: the frame comes from a file; the model builds it a row   *)
(* at a time.                                                              *)
LoadRow ==
    /\ pc = "load"
    /\ Len(df) < MaxRows
    /\ \E r \in FrameRows : df' = Append(df, r)
    /\ UNCHANGED <<row, result, pc, employee_summary, total_present_summary,
                   calendar_df, dashboard_metrics, error, classified, built>>

(* Lines 653, 884-906: an empty frame is not processed.                    *)
EmptyFrame ==
    /\ pc = "load"
    /\ Len(df) = 0
    /\ pc' = "welcome"
    /\ UNCHANGED <<row, result, df, employee_summary, total_present_summary,
                   calendar_df, dashboard_metrics, error, classified, built>>

(* Lines 653-656 *)
Classify ==
    /\ pc = "load"
    /\ Len(df) > 0
    /\ df' = apply_classify(df)
    /\ classified' = df'
    /\ pc' = "classified"
    /\ built' = {"classified"}
    /\ UNCHANGED <<row, result, employee_summary, total_present_summary,
                   calendar_df, dashboard_metrics, error>>

(* Lines 880-882 *)
Fail(exc, next, output) ==
    IF exc # None THEN pc' = "error" /\ error' = exc /\ built' = built
    ELSE pc' = next /\ error' = error /\ built' = built \cup {output}

(* Line 657 *)
Summary ==
    /\ pc = "classified"
    /\ Fail(groupby_error(df), "summarised", "summary")
    /\ employee_summary' =
          IF groupby_error(df) # None THEN employee_summary
          ELSE create_employee_summary(df)
    /\ UNCHANGED <<row, result, df, total_present_summary, calendar_df,
                   dashboard_metrics, classified>>

(* Line 658 *)
Ranking ==
    /\ pc = "summarised"
    /\ Fail(groupby_error(df), "ranked", "ranking")
    /\ IF groupby_error(df) # None THEN total_present_summary' = total_present_summary
       ELSE total_present_summary' \in create_total_present_summary(df)
    /\ UNCHANGED <<row, result, df, employee_summary, calendar_df,
                   dashboard_metrics, classified>>

(* Line 659: the call also adds its helper columns to df.                  *)
Calendar ==
    /\ pc = "ranked"
    /\ Fail(calendar_error(df), "calendar", "calendar")
    /\ IF calendar_error(df) # None THEN UNCHANGED <<calendar_df, df>>
       ELSE /\ df' = with_date_columns(df)
            /\ calendar_df' = calendar_of(df')
    /\ UNCHANGED <<row, result, employee_summary, total_present_summary,
                   dashboard_metrics, classified>>

(* Line 660: the call also adds a column to df and to employee_summary.    *)
Dashboard ==
    /\ pc = "calendar"
    /\ Fail(dashboard_error(df), "dashboard", "dashboard")
    /\ IF dashboard_error(df) # None
       THEN UNCHANGED <<dashboard_metrics, df, employee_summary>>
       ELSE /\ dashboard_metrics' = create_dashboard_metrics(df, employee_summary)
            /\ df' = with_date(df)
            /\ employee_summary' = with_performance_category(employee_summary)
    /\ UNCHANGED <<row, result, total_present_summary, calendar_df, classified>>

Next == LoadRow \/ EmptyFrame \/ Classify \/ Summary \/ Ranking \/ Calendar \/ Dashboard

Spec == Init /\ [][Next]_vars

----------------------------------------------------------------------------
(* classify_attendance applied to one row drawn from ClassifierRows.       *)

InitClassify ==
    /\ row \in ClassifierRows
    /\ result = "pending"
    /\ pc = "row"
    /\ df = <<>>
    /\ employee_summary = None
    /\ total_present_summary = None
    /\ calendar_df = None
    /\ dashboard_metrics = None
    /\ error = None
    /\ classified = None
    /\ built = {}

ClassifyRow ==
    /\ pc = "row"
    /\ result = "pending"
    /\ result' = classify_attendance(row)
    /\ pc' = "returned"
    /\ UNCHANGED <<row, df, employee_summary, total_present_summary, calendar_df,
                   dashboard_metrics, error, classified, built>>

NextClassify == ClassifyRow

SpecClassify == InitClassify /\ [][NextClassify]_vars

----------------------------------------------------------------------------
(* main() from line 653 on, for a frame that is already loaded.            *)

NextLoaded == Classify \/ Summary \/ Ranking \/ Calendar \/ Dashboard

(* A few records of two employees on two dates, one on time and one late.  *)
SmallRows ==
    { r \in FrameRows :
        /\ RowKey(r)[2] = <<"A","n","n">>
        /\ r[AttendanceDate].date.month = 1
        /\ r[AttendanceReasonStart] = NaN }

Frames(rows) == UNION { [1..n -> rows] : n \in 1..MaxRows }

(* The columns the processing reads: lines 31, 36, 45, 46, 69 and 78.      *)
RequiredColumns ==
    { UserCode, UserName, AttendanceDate, StartDayTime, StartDiffInMeters,
      AttendanceReasonStart, AttendanceReasonEnd }

Drop(r, c) == [k \in DOMAIN r \ {c} |-> r[k]]

(* Files that lack one of the columns.                                     *)
InitMissing ==
    /\ Unloaded
    /\ df \in { [i \in 1..Len(f) |-> Drop(f[i], c)] :
                  f \in Frames(SmallRows), c \in RequiredColumns }

SpecMissing == InitMissing /\ [][NextLoaded]_vars

----------------------------------------------------------------------------
(* main() on a month of records: every employee has one record on each of  *)
(* the first days of January 2024, on time on some of them and late on     *)
(* the others.  The first employee has up to MaxDays records, the second   *)
(* up to MaxDaysOther, or none.                                            *)

MaxDays == 10
MaxDaysOther == 2

OnTimeInput == <<Ts(D0101, 9, 0, 0, 0, 0), Num(50, 1), NaN>>
LateInput == <<Ts(D0101, 9, 30, 0, 0, 0), Num(50, 1), NaN>>

BatchRow(e, day, x) ==
    (UserCode :> Str(e[1])) @@ (UserName :> Str(e[2]))
    @@ (AttendanceDate :> Ts(Date(2024, 1, day), 0, 0, 0, 0, 0))
    @@ (StartDayTime :> x[1]) @@ (StartDiffInMeters :> x[2])
    @@ (AttendanceReasonStart :> x[3]) @@ (AttendanceReasonEnd :> NaN)

(* days records of employee e, the first ontime of them on time.           *)
BatchFrame(e, days, ontime) ==
    [i \in 1..days |-> BatchRow(e, i, IF i <= ontime THEN OnTimeInput ELSE LateInput)]

BatchFrames ==
    { BatchFrame(<<<<"E","1">>, <<"A","n","n">>>>, c[1], c[2])
      \o BatchFrame(<<<<"E","2">>, <<"A","n","n">>>>, c[3], c[4]) :
        c \in { c \in (1..MaxDays) \X (0..MaxDays) \X (0..MaxDaysOther) \X (0..MaxDaysOther) :
                  c[2] <= c[1] /\ c[4] <= c[3] } }

InitBatch == Unloaded /\ df \in BatchFrames

SpecBatch == InitBatch /\ [][NextLoaded]_vars

----------------------------------------------------------------------------
(* The calls of lines 657-660 in every order their arguments allow: the    *)
(* three builders take df, create_dashboard_metrics takes df and the       *)
(* summary.  create_monthly_calendar_view is taken in two steps, the       *)
(* columns it adds to df (lines 69-75) and the grid it builds from them    *)
(* (lines 78-116), so that another call may fall between them.  The frames *)
(* have every column, so no call raises.                                   *)

InitLoaded == Unloaded /\ df \in Frames(SmallRows)

AnySummary ==
    /\ "classified" \in built
    /\ "summary" \notin built
    /\ employee_summary' = create_employee_summary(df)
    /\ built' = built \cup {"summary"}
    /\ UNCHANGED <<row, result, pc, df, total_present_summary, calendar_df,
                   dashboard_metrics, error, classified>>

AnyRanking ==
    /\ "classified" \in built
    /\ "ranking" \notin built
    /\ total_present_summary' \in create_total_present_summary(df)
    /\ built' = built \cup {"ranking"}
    /\ UNCHANGED <<row, result, pc, df, employee_summary, calendar_df,
                   dashboard_metrics, error, classified>>

AnyCalendarColumns ==
    /\ "classified" \in built
    /\ "calendar_columns" \notin built
    /\ df' = with_date_columns(df)
    /\ built' = built \cup {"calendar_columns"}
    /\ UNCHANGED <<row, result, pc, employee_summary, total_present_summary,
                   calendar_df, dashboard_metrics, error, classified>>

AnyCalendarGrid ==
    /\ "calendar_columns" \in built
    /\ "calendar" \notin built
    /\ calendar_df' = calendar_of(df)
    /\ built' = built \cup {"calendar"}
    /\ UNCHANGED <<row, result, pc, df, employee_summary, total_present_summary,
                   dashboard_metrics, error, classified>>

AnyDashboard ==
    /\ "summary" \in built
    /\ "dashboard" \notin built
    /\ dashboard_metrics' = create_dashboard_metrics(df, employee_summary)
    /\ df' = with_date(df)
    /\ employee_summary' = with_performance_category(employee_summary)
    /\ built' = built \cup {"dashboard"}
    /\ UNCHANGED <<row, result, pc, total_present_summary, calendar_df, error,
                   classified>>

NextAnyOrder ==
    \/ Classify
    \/ AnySummary
    \/ AnyRanking
    \/ AnyCalendarColumns
    \/ AnyCalendarGrid
    \/ AnyDashboard

SpecAnyOrder == InitLoaded /\ [][NextAnyOrder]_vars

----------------------------------------------------------------------------
(* Properties of classify_attendance, checked under SpecClassify.          *)

Returned == pc = "returned"

(* A row that has the four columns the classifier reads; a cell of it may  *)
(* still be empty.                                                         *)
Complete(r) == ClassifierFields \subseteq DOMAIN r

OnTimeStatuses == {"present", "outstation_present"}
LateStatuses == {"late", "outstation_late"}

(* The start time of the row, when it has one that parses to a timestamp.  *)
HasValidStart(r) ==
    /\ Has(r, StartDayTime)
    /\ ~to_datetime(r[StartDayTime]).raised
    /\ to_datetime(r[StartDayTime]).val.t = "ts"
TimeOfDay(r) ==
    LET x == to_datetime(r[StartDayTime]).val
    IN <<x.hour, x.minute, x.second, x.microsecond, x.nanosecond>>
NineFifteen == <<9, 15, 0, 0, 0>>
AtOrBeforeCutoff(r) == HasValidStart(r) /\ LexLeq(TimeOfDay(r), NineFifteen)
AfterCutoff(r) == HasValidStart(r) /\ ~LexLeq(TimeOfDay(r), NineFifteen)

(* The meter cell is the sentinel, or float() rejects it.                  *)
MeterSentinelOrUnparsable(r) ==
    /\ Has(r, StartDiffInMeters)
    /\ \/ r[StartDiffInMeters] = Str(OTHER_LOCATION)
       \/ ToFloat(r[StartDiffInMeters]).raised
MeterNumeric(r) ==
    /\ Has(r, StartDiffInMeters)
    /\ ~MeterSentinelOrUnparsable(r)
    /\ ToFloat(r[StartDiffInMeters]).val.f = "fin"
MeterBelow200(r) ==
    /\ MeterNumeric(r)
    /\ LET x == ToFloat(r[StartDiffInMeters]).val IN x.num < 200 * x.den
MeterAtLeast200(r) ==
    /\ MeterNumeric(r)
    /\ LET x == ToFloat(r[StartDiffInMeters]).val IN x.num >= 200 * x.den

(* Either reason cell holds the token "outstation", in any letter case.    *)
CellHasToken(c) == c.t = "str" /\ Contains(OUTSTATION, StrLower(c.s))
HasToken(r) ==
    \/ (Has(r, AttendanceReasonStart) /\ CellHasToken(r[AttendanceReasonStart]))
    \/ (Has(r, AttendanceReasonEnd) /\ CellHasToken(r[AttendanceReasonEnd]))

(* C1: classify_attendance is total: for every row, also one with a        *)
(* malformed, empty or missing Start Day Time, meter or reason field, it   *)
(* raises nothing and returns present, outstation_present, late or         *)
(* outstation_late, never absent.                                          *)
C1_Total == Returned => result \in Statuses

(* A row on which the try block raised, and the call returned late.        *)
C1_Witness == Returned /\ classify_try(row).raised /\ result = "late"

(* C2: a complete row with a start time at or before 09:15:00 of its day   *)
(* (09:15:00 included) and a numeric meter below 200 is present without    *)
(* the token "outstation" in a reason field, outstation_present with it.   *)
C2_OnTimeNearby ==
    (Returned /\ Complete(row) /\ AtOrBeforeCutoff(row) /\ MeterBelow200(row))
        => result = IF HasToken(row) THEN "outstation_present" ELSE "present"

(* Start time exactly 09:15:00, meter below 200, no token: present.        *)
C2_Witness ==
    /\ Returned /\ Complete(row) /\ HasValidStart(row)
    /\ TimeOfDay(row) = NineFifteen /\ MeterBelow200(row) /\ ~HasToken(row)
    /\ result = "present"

(* C3: a complete row with a valid start time that is after 09:15:00 of    *)
(* its day, or with a numeric meter of 200 or more, is outstation_late     *)
(* with the token "outstation" in a reason field and late without it.      *)
C3_LateOrFar ==
    (Returned /\ Complete(row) /\ HasValidStart(row)
       /\ (AfterCutoff(row) \/ MeterAtLeast200(row)))
        => result = IF HasToken(row) THEN "outstation_late" ELSE "late"

(* C4: a row whose meter is "Other Location" or not parseable as a number  *)
(* is late or outstation_late, whatever its start time and reasons.        *)
C4_SentinelNeverPresent ==
    (Returned /\ MeterSentinelOrUnparsable(row)) => result \in LateStatuses

(* Scenario C: meter "Other Location", start 08:00, no token: late.        *)
C4_Witness ==
    /\ Returned /\ Complete(row) /\ row[StartDiffInMeters] = Str(OTHER_LOCATION)
    /\ AtOrBeforeCutoff(row) /\ ~HasToken(row) /\ result = "late"

(* The row has no Start Day Time column, or an empty cell in it, or a text *)
(* the timestamp parser rejects.                                           *)
StartUnparsableOrAbsent(r) ==
    \/ ~Has(r, StartDayTime)
    \/ r[StartDayTime] = NaN
    \/ to_datetime(r[StartDayTime]).raised

(* C5: a row whose Start Day Time is unparsable or absent is exactly late, *)
(* whatever its meter and reason fields.                                   *)
C5_BadStartIsLate ==
    (Returned /\ StartUnparsableOrAbsent(row)) => result = "late"

(* The rows that differ from r in their reason cells at most.              *)
ReasonVariants(r) ==
    { [r EXCEPT ![AttendanceReasonStart] = rs, ![AttendanceReasonEnd] = re] :
        rs \in ReasonCells, re \in ReasonCells }

(* C6: two complete rows with the same start time and meter cells, which   *)
(* differ only in their reason cells (text, empty text or empty cell), are *)
(* both on time or both late.                                              *)
C6_ReasonOnlyRelabels ==
    (Returned /\ Complete(row)) =>
        \A r2 \in ReasonVariants(row) :
            (classify_attendance(r2) \in OnTimeStatuses) = (result \in OnTimeStatuses)

(* An on-time row with the token whose twin without it is present.         *)
C6_Witness ==
    /\ Returned /\ Complete(row) /\ HasToken(row) /\ result = "outstation_present"
    /\ \E r2 \in ReasonVariants(row) : ~HasToken(r2) /\ classify_attendance(r2) = "present"

----------------------------------------------------------------------------
(* Properties of the calendar grid and the employee summary, checked under *)
(* Spec once the views are built.                                          *)

GridBuilt == pc \in {"calendar", "dashboard"}
SummaryBuilt == pc \in {"summarised", "ranked", "calendar", "dashboard"}

(* The distinct calendar dates of the batch, those of one employee, and    *)
(* the date of the j-th date column (dates ascending).                     *)
BatchDates == {DateOf(df[i]) : i \in 1..Len(df)}
EmployeeDates(k) == {DateOf(df[i]) : i \in RowsOf(df, k)}
DateAt(j) ==
    CHOOSE x \in BatchDates :
        Cardinality({y \in BatchDates : ToOrdinal(y) < ToOrdinal(x)}) = j - 1
RecordsOn(k, x) == {i \in RowsOf(df, k) : DateOf(df[i]) = x}
GridRowsOf(k) == {i \in 1..Len(calendar_df.rows) : calendar_df.rows[i].key = k}

(* C7: every (User Code, User Name) pair of the input has exactly one grid *)
(* row, and that row has one cell, holding one of the five statuses, for   *)
(* every distinct date of the batch.                                       *)
C7_GridComplete ==
    GridBuilt =>
        /\ Len(calendar_df.columns) = 2 + Cardinality(BatchDates)
        /\ \A k \in GroupKeys(df) : Cardinality(GridRowsOf(k)) = 1
        /\ \A i \in 1..Len(calendar_df.rows) :
              /\ Len(calendar_df.rows[i].cells) = Cardinality(BatchDates)
              /\ \A j \in 1..Len(calendar_df.rows[i].cells) :
                    calendar_df.rows[i].cells[j] \in AllStatuses

(* Two employees who share a User Code, on different dates.                *)
C7_Witness ==
    /\ GridBuilt
    /\ \E k1, k2 \in GroupKeys(df) : k1 # k2 /\ k1[1] = k2[1]
    /\ Cardinality(BatchDates) >= 2

(* C8: when an employee has several records on one date, the cell of that  *)
(* (employee, date) holds the status of the first of them in input order.  *)
C8_FirstRecordWins ==
    GridBuilt =>
        \A i \in 1..Len(calendar_df.rows) :
            \A j \in 1..Len(calendar_df.rows[i].cells) :
                LET recs == RecordsOn(calendar_df.rows[i].key, DateAt(j)) IN
                recs # {} =>
                    calendar_df.rows[i].cells[j] =
                        df[CHOOSE a \in recs : \A b \in recs : a <= b][Attendance]

(* An employee with two same-day records of different status.              *)
C8_Witness ==
    /\ GridBuilt
    /\ \E a, b \in 1..Len(df) :
          /\ a < b /\ RowKey(df[a]) = RowKey(df[b]) /\ DateOf(df[a]) = DateOf(df[b])
          /\ df[a][Attendance] # df[b][Attendance]

(* C9: the number of non-absent cells of an employee's grid row is the     *)
(* number of distinct dates on which the employee has a record, and the    *)
(* cell of every date without a record of the employee is absent.          *)
C9_AbsentFill ==
    GridBuilt =>
        \A i \in 1..Len(calendar_df.rows) :
            LET k == calendar_df.rows[i].key
                cells == calendar_df.rows[i].cells
            IN /\ Cardinality({j \in 1..Len(cells) : cells[j] # "absent"})
                    = Cardinality(EmployeeDates(k))
               /\ \A j \in 1..Len(cells) :
                     RecordsOn(k, DateAt(j)) = {} => cells[j] = "absent"

(* A grid row with an absent cell beside a non-absent one.                 *)
C9_Witness ==
    /\ GridBuilt
    /\ \E i \in 1..Len(calendar_df.rows) :
          /\ \E j \in 1..Len(calendar_df.rows[i].cells) :
                calendar_df.rows[i].cells[j] = "absent"
          /\ \E j \in 1..Len(calendar_df.rows[i].cells) :
                calendar_df.rows[i].cells[j] # "absent"

(* C10: each employee's Absent count in the summary is the number of dates *)
(* of the batch on which that employee has no record, which is the number  *)
(* of absent cells of the employee's grid row.                             *)
C10_AbsentCounted ==
    SummaryBuilt =>
        \A i \in 1..Len(employee_summary) :
            employee_summary[i].Absent =
                Cardinality(BatchDates
                            \ EmployeeDates(<<employee_summary[i].code,
                                              employee_summary[i].name>>))

----------------------------------------------------------------------------
(* Properties of create_employee_summary, checked under Spec.              *)

SummaryRows == IF "summary" \in built THEN employee_summary ELSE <<>>

(* C11: every row of the employee summary has Total Days equal to the sum  *)
(* of its five status counts, Total Present equal to Present plus          *)
(* Outstation Present and, when Total Days is positive, an Attendance %    *)
(* between 0 and 100.                                                      *)
C11_SummaryInvariants ==
    \A i \in 1..Len(SummaryRows) :
        LET r == SummaryRows[i] IN
        /\ r.TotalDays = r.Present + r.OutstationPresent + r.Late
                         + r.OutstationLate + r.Absent
        /\ r.TotalPresent = r.Present + r.OutstationPresent
        /\ r.TotalDays > 0 =>
              /\ r.AttendancePct.t = "num"
              /\ 0 <= r.AttendancePct.num
              /\ r.AttendancePct.num <= 100 * r.AttendancePct.den

C11_Witness ==
    /\ SummaryBuilt
    /\ \E i \in 1..Len(SummaryRows) :
          /\ SummaryRows[i].OutstationPresent = 1
          /\ SummaryRows[i].Late = 1
          /\ SummaryRows[i].TotalDays = 2

----------------------------------------------------------------------------
(* Properties of create_total_present_summary, checked under Spec.         *)

RankingRows == IF "ranking" \in built THEN total_present_summary ELSE <<>>

FirstAppearance(d, k) == CHOOSE i \in RowsOf(d, k) : \A j \in RowsOf(d, k) : i <= j

(* C12: the ranking has one entry per (User Code, User Name) pair, in      *)
(* descending order of Total Present, and entries with equal Total Present *)
(* stand in the order in which their employees first appear in the input.  *)
C12_RankingOrder ==
    "ranking" \in built =>
        LET r == RankingRows
            key(i) == <<r[i].code, r[i].name>>
        IN /\ Len(r) = Cardinality(GroupKeys(classified))
           /\ {key(i) : i \in 1..Len(r)} = GroupKeys(classified)
           /\ \A i, j \in 1..Len(r) :
                 i < j =>
                    /\ r[i].TotalPresent >= r[j].TotalPresent
                    /\ r[i].TotalPresent = r[j].TotalPresent =>
                          FirstAppearance(classified, key(i))
                            < FirstAppearance(classified, key(j))

----------------------------------------------------------------------------
(* Properties of create_dashboard_metrics, checked under Spec.             *)

DashboardBuilt == "dashboard" \in built

RECURSIVE SumOver(_, _)
SumOver(rows, f) ==
    IF Len(rows) = 0 THEN 0 ELSE rows[1][f] + SumOver(Tail(rows), f)

(* C13: the dashboard's total_employees is the number of summary rows,     *)
(* total_present_days the sum of Total Present, total_late_days the sum of *)
(* Late + Outstation Late and total_absent_days the sum of Absent, each    *)
(* over all summary rows.                                                  *)
C13_DashboardTotals ==
    DashboardBuilt =>
        /\ dashboard_metrics.total_employees = Len(SummaryRows)
        /\ dashboard_metrics.total_present_days = SumOver(SummaryRows, "TotalPresent")
        /\ dashboard_metrics.total_late_days =
              SumOver(SummaryRows, "Late") + SumOver(SummaryRows, "OutstationLate")
        /\ dashboard_metrics.total_absent_days = SumOver(SummaryRows, "Absent")

C13_Witness ==
    /\ DashboardBuilt
    /\ Len(SummaryRows) = 2
    /\ SummaryRows[1].OutstationLate = 1
    /\ SummaryRows[2].Late = 1
    /\ dashboard_metrics.total_late_days = 2

Labels == {cut_labels[j] : j \in 1..Len(cut_labels)}

DefinedPct == {i \in 1..Len(SummaryRows) : SummaryRows[i].AttendancePct.t = "num"}

(* C14: every summary row whose Attendance % is defined, a row at exactly  *)
(* 0 included, has exactly one performance category, so the counts of the  *)
(* performance histogram sum to the number of such rows.                   *)
C14_EveryRowCategorised ==
    DashboardBuilt =>
        /\ \A i \in DefinedPct : SummaryRows[i].performance_category \in Labels
        /\ SumSeq([j \in 1..Len(cut_labels) |->
                      dashboard_metrics.performance_categories[cut_labels[j]]])
              = Cardinality(DefinedPct)

----------------------------------------------------------------------------
(* Properties of main() on files that lack a column, checked under         *)
(* SpecMissing.                                                            *)

MissingColumns == RequiredColumns \ Columns(df)

(* C15: a dataset that lacks a required column is rejected before any      *)
(* record is classified, with an error that names the missing column, and  *)
(* no summary, ranking, grid or dashboard is produced from it.             *)
C15_MissingColumnRejected ==
    (pc # "load" /\ MissingColumns # {}) =>
        /\ pc = "error"
        /\ error.type = "KeyError"
        /\ error.key \in MissingColumns
        /\ built = {}

----------------------------------------------------------------------------
(* Properties of main() on a file without records, checked under Spec.     *)

(* C16: a dataset with zero records is processed as valid input: the run   *)
(* goes through classification and aggregation without an error, every     *)
(* count and total is zero and the percentage is the not-a-number value.   *)
C16_EmptyProcessed ==
    (pc # "load" /\ Len(df) = 0) =>
        /\ pc \notin {"welcome", "error"}
        /\ "classified" \in built
        /\ DashboardBuilt =>
              /\ dashboard_metrics.total_employees = 0
              /\ dashboard_metrics.total_present_days = 0
              /\ dashboard_metrics.total_late_days = 0
              /\ dashboard_metrics.total_absent_days = 0
              /\ dashboard_metrics.overall_attendance_rate = NaN

----------------------------------------------------------------------------
(* Properties of the performance categories and the overall rate, checked  *)
(* under SpecBatch.                                                        *)

(* lo < pct <= hi, for whole percentages lo and hi.                        *)
PctWithin(pct, lo, hi) == lo * pct.den < pct.num /\ pct.num <= hi * pct.den

PctIs(pct, v) == pct.t = "num" /\ pct.num = v * pct.den

C18_OverallRate ==
    (DashboardBuilt /\ Len(SummaryRows) > 0) =>
        LET rate == dashboard_metrics.overall_attendance_rate
            largest == CHOOSE m \in {SummaryRows[i].TotalDays : i \in 1..Len(SummaryRows)} :
                          \A i \in 1..Len(SummaryRows) : SummaryRows[i].TotalDays <= m
            days == Len(SummaryRows) * largest
            exact == 1000 * SumOver(SummaryRows, "TotalPresent")
            diff == (rate.num * days) - exact
        IN /\ rate.t = "num"
           /\ rate.den = 10
           /\ 2 * diff <= days
           /\ -days <= 2 * diff
           /\ 0 <= rate.num
           /\ rate.num <= 1000

C18_Witness ==
    /\ DashboardBuilt
    /\ Len(SummaryRows) = 2
    /\ SummaryRows[1].TotalDays = 3
    /\ SummaryRows[1].TotalPresent = 3
    /\ SummaryRows[2].TotalDays = 1
    /\ SummaryRows[2].TotalPresent = 1
    /\ dashboard_metrics.overall_attendance_rate = Num(667, 10)

----------------------------------------------------------------------------
(* Properties of the builders run in any order, checked under              *)
(* SpecAnyOrder.                                                           *)

(* The columns create_employee_summary returns.                            *)
SummaryColumns(es) ==
    [i \in 1..Len(es) |->
        [code |-> es[i].code, name |-> es[i].name,
         Present |-> es[i].Present, OutstationPresent |-> es[i].OutstationPresent,
         TotalPresent |-> es[i].TotalPresent,
         Late |-> es[i].Late, OutstationLate |-> es[i].OutstationLate,
         Absent |-> es[i].Absent, TotalDays |-> es[i].TotalDays,
         AttendancePct |-> es[i].AttendancePct]]

(* C19: in whatever order the grid, summary and ranking builders run over  *)
(* the classified records, each returns what it returns when run alone on  *)
(* them, and the dashboard starts only once the summary exists and is      *)
(* computed from it.                                                       *)
C19_OrderIndependent ==
    /\ "summary" \in built =>
          SummaryColumns(employee_summary) = create_employee_summary(classified)
    /\ "ranking" \in built =>
          total_present_summary \in create_total_present_summary(classified)
    /\ "calendar" \in built =>
          calendar_df = create_monthly_calendar_view(classified)
    /\ "dashboard" \in built =>
          /\ "summary" \in built
          /\ dashboard_metrics =
                create_dashboard_metrics(classified, create_employee_summary(classified))

C19_Witness ==
    /\ built = {"classified", "calendar_columns", "calendar", "dashboard", "summary", "ranking"}
    /\ Len(classified) = 2
    /\ RowKey(classified[1]) = RowKey(classified[2])
    /\ DateOf(classified[1]) = DateOf(classified[2])
    /\ classified[1][Attendance] # classified[2][Attendance]

----------------------------------------------------------------------------
(* Properties of the builders' effect on their arguments, checked under    *)
(* Spec.                                                                   *)

(* C20: once classified, the records are never changed: no call of         *)
(* create_employee_summary, create_total_present_summary,                  *)
(* create_monthly_calendar_view or create_dashboard_metrics changes a row, *)
(* a field or a value of the records it is given, and                      *)
(* create_dashboard_metrics leaves the summary rows it is given unchanged. *)
C20_RecordsNeverChange ==
    [][ "classified" \in built =>
          /\ df' = df
          /\ "summary" \in built => employee_summary' = employee_summary ]_vars

----------------------------------------------------------------------------
(* Properties of the grid's date columns, checked under Spec.              *)

DateColumns == 3..Len(calendar_df.columns)

(* C21: in the grid, two distinct dates of the batch never share a column: *)
(* there are as many date columns as distinct dates, and every date column *)
(* is identified with one date, its name being the display text of the     *)
(* date at its position and the name of no other column, also when two     *)
(* dates of different months have the same day-of-month and weekday.       *)
C21_DateColumnsUnambiguous ==
    GridBuilt =>
        /\ Cardinality(DateColumns) = Cardinality(BatchDates)
        /\ \A j \in DateColumns :
              calendar_df.columns[j] = FormatDateDisplay(DateAt(j - 2))
        /\ \A i, j \in DateColumns :
              i # j => calendar_df.columns[i] # calendar_df.columns[j]

====
